---- MODULE Spec2Model ----
(***************************************************************************)
(* Verification model of thunder-speech: the Citrinet building blocks      *)
(* (thunder/citrinet/blocks.py), the Quartznet feature front-end           *)
(* (thunder/quartznet/transform.py) and the checkpoint helpers             *)
(* (thunder/utils.py).                                                     *)
(*                                                                         *)
(* Tensors of the network part are modelled by their shapes; tensors of    *)
(* the feature front-end by their values, in exact integer / rational      *)
(* arithmetic with an explicit NaN.                                        *)
(***************************************************************************)
EXTENDS Integers, Sequences, FiniteSets, TLC

VARIABLES
    se,         \* the SqueezeExcite module under construction / built
    se_call,    \* the last SqueezeExcite.forward call
    blk,        \* the CitrinetBlock under construction / built
    blk_call,   \* the last CitrinetBlock.forward call
    norm_x,     \* the tensor handed to FeatureBatchNormalizer.forward
    norm_call,  \* the last FeatureBatchNormalizer.forward call
    norm_prev,  \* the call before the tensor was padded with zero frames
    ps,         \* the PowerSpectrum module under construction / built
    mel,        \* the MelScale module under construction / built
    mel_x,      \* the spectrogram handed to MelScale.forward
    mel_call,   \* the last MelScale.forward call
    dirs,       \* the folders that exist on disk
    files,      \* the files on disk: path -> the URL its content came from
    calls,      \* the download_checkpoint calls so far, oldest first
    parsed,     \* the outcome of the last BaseCheckpoint.from_string call
    feat,       \* the FilterbankFeatures pipeline under construction / built
    feat_x,     \* the audio signal handed to the pipeline
    feat_runs,  \* the runs of the pipeline on feat_x so far, oldest first
    enc,        \* the Citrinet encoder under construction / built
    enc_call    \* the last call of the encoder

vars == <<se, se_call, blk, blk_call, norm_x, norm_call, norm_prev,
          ps, mel, mel_x, mel_call, dirs, files, calls, parsed,
          feat, feat_x, feat_runs, enc, enc_call>>

seVars == <<se, se_call>>
blkVars == <<blk, blk_call>>
netVars == <<se, se_call, blk, blk_call>>
normVars == <<norm_x, norm_call, norm_prev>>
psVars == <<ps>>
melVars == <<mel, mel_x, mel_call>>
ckptVars == <<dirs, files, calls, parsed>>
featVars == <<feat, feat_x, feat_runs>>
encVars == <<enc, enc_call>>

---------------------------------------------------------------------------
(* Bounds of the model. *)

MaxChannels == 3
MaxBatch == 2
MaxTime == 4
MaxRatio == 3
MaxRepeat == 2
MaxKernel == 3
MaxStride == 2
MaxDilation == 2
NormMaxRows == 2
NormMaxTime == 2
MaxWindow == 4
MaxFFT == 4
MaxFilters == 1
MaxFrames == 1
MaxPower == 1
MaxCalls == 3
FeatMaxTime == 2
MaxDither == 1
MaxBlocks == 2

(* Program constants. *)

\* reduction_ratio=8 of the gate that closes a block's main path
BlockReductionRatio == 8

\* the guard 2 ** -24 that MelScale.forward adds before the logarithm
LogGuardExponent == 24

\* preemph = 0.97, as PreemphNum / PreemphDen
PreemphNum == 97
PreemphDen == 100

\* repeat: int = 5 of CitrinetBlock.__init__
DefaultRepeat == 5

\* channels and kernel size of the stem, and of the block that closes the body
StemChannels == 256
StemKernel == 5
FinalChannels == 640
FinalKernel == 41

\* feat_in: int = 80 of EncoderConfig
DefaultFeatIn == 80

---------------------------------------------------------------------------
(* Shapes and the shape semantics of the tensor primitives the code calls. *)

Max(a, b) == IF a >= b THEN a ELSE b

\* A tensor shape, or the failure of the library call that should produce it.
Shape(dims) == [ok |-> TRUE, dims |-> dims]
ShapeError == [ok |-> FALSE, dims |-> <<>>]

\* y.transpose(1, -1): swaps the second and the last dimension of a 3-d tensor
Transpose1Last(sh) ==
    IF ~sh.ok THEN ShapeError
    ELSE Shape(<<sh.dims[1], sh.dims[3], sh.dims[2]>>)

\* nn.AdaptiveAvgPool1d(1): (B, C, T) -> (B, C, 1); an empty time axis is refused
AdaptiveAvgPool1(sh) ==
    IF ~sh.ok \/ sh.dims[3] < 1 THEN ShapeError
    ELSE Shape(<<sh.dims[1], sh.dims[2], 1>>)

\* nn.Linear(fin, fout): acts on the last dimension, which must be fin
Linear(fin, fout, sh) ==
    IF ~sh.ok \/ sh.dims[3] # fin THEN ShapeError
    ELSE Shape(<<sh.dims[1], sh.dims[2], fout>>)

\* Broadcasting of two 3-d shapes by an elementwise operator (x * y, out + res)
BroadcastOK(a, b) ==
    \A i \in 1..3 : a.dims[i] = b.dims[i] \/ a.dims[i] = 1 \/ b.dims[i] = 1

Broadcast(a, b) ==
    IF ~a.ok \/ ~b.ok THEN ShapeError
    ELSE IF ~BroadcastOK(a, b) THEN ShapeError
    ELSE Shape([i \in 1..3 |-> Max(a.dims[i], b.dims[i])])

---------------------------------------------------------------------------
(* SqueezeExcite *)

\* SqueezeExcite.__init__: the pooling layer and the two-layer bottleneck.
\* channels // reduction_ratio raises ZeroDivisionError for a ratio of 0.
SqueezeExcite_init(channels, reduction_ratio) ==
    IF reduction_ratio = 0
    THEN [state |-> "ZeroDivisionError", channels |-> channels, hidden |-> 0]
    ELSE [state |-> "built", channels |-> channels,
          hidden |-> channels \div reduction_ratio]

\* SqueezeExcite.forward without the second transpose (the gate stays (B, 1, C))
SqueezeExcite_forward_NoTransposeBack(m, x) ==
    LET y1 == AdaptiveAvgPool1(x)
        y2 == Transpose1Last(y1)
        y3 == Linear(m.hidden, m.channels, Linear(m.channels, m.hidden, y2))
    IN  Broadcast(x, y3)

\* SqueezeExcite.forward: pool, transpose, fc, transpose, sigmoid, x * y
SqueezeExcite_forward(m, x) ==
    LET y1 == AdaptiveAvgPool1(x)
        y2 == Transpose1Last(y1)
        y3 == Linear(m.hidden, m.channels, Linear(m.channels, m.hidden, y2))
        y4 == Transpose1Last(y3)
    IN  Broadcast(x, y4)

NoSE == [state |-> "none", channels |-> 0, hidden |-> 0]
NoCall == [done |-> FALSE, x |-> ShapeError, out |-> ShapeError]

InputShapes ==
    {Shape(<<b, c, t>>) : b \in 1..MaxBatch, c \in 1..MaxChannels, t \in 1..MaxTime}

\* se = SqueezeExcite(channels, reduction_ratio)
NewSqueezeExcite ==
    /\ se.state = "none"
    /\ \E channels \in 1..MaxChannels, ratio \in 0..MaxRatio :
        se' = SqueezeExcite_init(channels, ratio)
    /\ UNCHANGED <<se_call, blkVars, normVars, psVars, melVars, ckptVars, featVars, encVars>>

\* se(x)
CallSqueezeExcite ==
    /\ se.state = "built"
    /\ \E x \in InputShapes :
        se_call' = [done |-> TRUE, x |-> x, out |-> SqueezeExcite_forward(se, x)]
    /\ UNCHANGED <<se, blkVars, normVars, psVars, melVars, ckptVars, featVars, encVars>>

---------------------------------------------------------------------------
(* Layers of a CitrinetBlock *)

\* One layer of an nn.Sequential. role separates the convolution that carries
\* the kernel, stride, dilation and padding of a stage ("main") from the 1x1
\* convolution that follows it in a separable stage ("pointwise").
Layer(kind, role, cin, cout, k, s, d, p) ==
    [kind |-> kind, role |-> role, cin |-> cin, cout |-> cout,
     kernel |-> k, stride |-> s, dilation |-> d, padding |-> p]

\* get_same_padding(kernel_size, stride, dilation)
SamePaddingRaises(stride, dilation) == stride > 1 /\ dilation > 1

get_same_padding(kernel_size, stride, dilation) ==
    (dilation * (kernel_size - 1)) \div 2

\* _get_conv_bn_layer(in_channels, out_channels, kernel_size, stride, dilation,
\*                    padding, separable): convolution(s), then batch norm
get_conv_bn_layer(cin, cout, k, s, d, p, separable) ==
    IF separable
    THEN << Layer("conv", "main", cin, cin, k, s, d, p),
            Layer("conv", "pointwise", cin, cout, 1, 1, 1, 0),
            Layer("bn", "", cout, cout, 0, 0, 0, 0) >>
    ELSE << Layer("conv", "main", cin, cout, k, s, d, p),
            Layer("bn", "", cout, cout, 0, 0, 0, 0) >>

\* _get_act_dropout_layer(drop_prob): activation, then dropout
get_act_dropout_layer ==
    << Layer("act", "", 0, 0, 0, 0, 0, 0), Layer("dropout", "", 0, 0, 0, 0, 0, 0) >>

\* The gate as a layer of the main path: cin = channels, cout = hidden width
SELayer(channels, reduction_ratio) ==
    Layer("se", "", channels, channels \div reduction_ratio, 0, 0, 0, 0)

\* Conv1d on (B, C, L): C must be the layer's in_channels, and
\* L_out = floor((L + 2p - d(k-1) - 1) / s) + 1, which must be at least 1
ConvForward(l, sh) ==
    IF ~sh.ok \/ sh.dims[2] # l.cin THEN ShapeError
    ELSE LET span == sh.dims[3] + 2 * l.padding - l.dilation * (l.kernel - 1) - 1
         IN  IF span < 0 THEN ShapeError
             ELSE Shape(<<sh.dims[1], l.cout, (span \div l.stride) + 1>>)

\* BatchNorm1d(num_features): keeps the shape, checks the channel count
BNForward(l, sh) ==
    IF ~sh.ok \/ sh.dims[2] # l.cin THEN ShapeError ELSE sh

LayerForward(l, sh) ==
    CASE l.kind = "conv" -> ConvForward(l, sh)
      [] l.kind = "bn" -> BNForward(l, sh)
      [] l.kind = "se" ->
            SqueezeExcite_forward(
                [state |-> "built", channels |-> l.cin, hidden |-> l.cout], sh)
      [] OTHER -> sh

\* nn.Sequential(*layers)(x)
RECURSIVE SequentialForward(_, _)
SequentialForward(layers, sh) ==
    IF layers = <<>> THEN sh
    ELSE SequentialForward(Tail(layers), LayerForward(Head(layers), sh))

---------------------------------------------------------------------------
(* CitrinetBlock *)

\* The `for _ in range(repeat - 1)` loop of CitrinetBlock.__init__: the layers
\* of the first n stages, all of stride 1; inplanes is the input channel count
\* of the first of them.
RECURSIVE RepeatLoop(_, _, _, _, _, _, _)
RepeatLoop(n, inplanes, cout, k, d, pad, separable) ==
    IF n <= 0 THEN <<>>
    ELSE get_conv_bn_layer(inplanes, cout, k, 1, d, pad, separable)
         \o get_act_dropout_layer
         \o RepeatLoop(n - 1, cout, cout, k, d, pad, separable)

\* inplanes_loop when the loop never assigns it
InplanesAfterLoop_Stale(repeat, cin, cout) == cin

\* inplanes_loop after the loop
InplanesAfterLoop(repeat, cin, cout) == IF repeat - 1 > 0 THEN cout ELSE cin

\* CitrinetBlock.__init__
CitrinetBlock_init(cin, cout, repeat, k, s, d, residual, separable) ==
    LET params == [in_channels |-> cin, out_channels |-> cout, repeat |-> repeat,
                   kernel_size |-> k, stride |-> s, dilation |-> d,
                   residual |-> residual, separable |-> separable]
    IN  IF SamePaddingRaises(1, d) \/ SamePaddingRaises(s, d)
        THEN [state |-> "ValueError", params |-> params, mconv |-> <<>>, res |-> <<>>]
        ELSE
          LET pad1 == get_same_padding(k, 1, d)
              loop == RepeatLoop(repeat - 1, cin, cout, k, d, pad1, separable)
              padS == get_same_padding(k, s, d)
              last == get_conv_bn_layer(InplanesAfterLoop(repeat, cin, cout), cout,
                                        k, s, d, padS, separable)
              stride_residual == IF s = 1 THEN s ELSE s
          IN  [state |-> "built", params |-> params,
               mconv |-> loop \o last \o <<SELayer(cout, BlockReductionRatio)>>,
               res |-> IF residual
                       THEN get_conv_bn_layer(cin, cout, 1, stride_residual, 1, 0, FALSE)
                       ELSE <<>>]

\* CitrinetBlock.forward: the main path, the projection branch, their sum
CitrinetBlock_forward(b, x) ==
    LET main == SequentialForward(b.mconv, x)
        proj == IF b.params.residual THEN SequentialForward(b.res, x) ELSE ShapeError
        out == IF b.params.residual THEN Broadcast(main, proj) ELSE main
    IN  [done |-> TRUE, x |-> x, main |-> main, proj |-> proj,
         out |-> SequentialForward(get_act_dropout_layer, out)]

NoBlock ==
    [state |-> "none",
     params |-> [in_channels |-> 0, out_channels |-> 0, repeat |-> 0,
                 kernel_size |-> 0, stride |-> 0, dilation |-> 0,
                 residual |-> FALSE, separable |-> FALSE],
     mconv |-> <<>>, res |-> <<>>]
NoBlockCall ==
    [done |-> FALSE, x |-> ShapeError, main |-> ShapeError, proj |-> ShapeError,
     out |-> ShapeError]

\* blk = CitrinetBlock(in_channels, out_channels, repeat, (kernel_size,),
\*                     (stride,), (dilation,), residual=..., separable=...)
NewCitrinetBlock ==
    /\ blk.state = "none"
    /\ \E cin \in 1..MaxChannels, cout \in 1..MaxChannels, repeat \in 0..MaxRepeat,
       k \in 1..MaxKernel, s \in 1..MaxStride, d \in 1..MaxDilation,
       residual \in BOOLEAN, separable \in BOOLEAN :
        blk' = CitrinetBlock_init(cin, cout, repeat, k, s, d, residual, separable)
    /\ UNCHANGED <<blk_call, seVars, normVars, psVars, melVars, ckptVars, featVars, encVars>>

\* blk(x), for an input with the channel count the block was built for
CallCitrinetBlock ==
    /\ blk.state = "built"
    /\ \E b \in 1..MaxBatch, t \in 1..MaxTime :
        blk_call' = CitrinetBlock_forward(blk, Shape(<<b, blk.params.in_channels, t>>))
    /\ UNCHANGED <<blk, seVars, normVars, psVars, melVars, ckptVars, featVars, encVars>>

---------------------------------------------------------------------------
(* stem, body, Citrinet_encoder *)

\* stem(feat_in)
stem(feat_in) ==
    CitrinetBlock_init(feat_in, StemChannels, 1, StemKernel, 1, 1, FALSE, TRUE)

\* f_in that stays what it was before the loop
NextFIn_Stale(f_in, f) == f_in

\* f_in = f, at the end of one round of the loop of body
NextFIn(f_in, f) == f

\* The loop of body over zip(filters, kernel_size, strides), which stops at the
\* end of the shortest list, and the block appended after it; f_in is the
\* input channel count of the next block.
RECURSIVE BodyLoop(_, _, _, _)
BodyLoop(f_in, filters, kernel_size, strides) ==
    IF filters = <<>> \/ kernel_size = <<>> \/ strides = <<>>
    THEN << CitrinetBlock_init(f_in, FinalChannels, 1, FinalKernel, 1, 1, FALSE, TRUE) >>
    ELSE << CitrinetBlock_init(f_in, Head(filters), DefaultRepeat, Head(kernel_size),
                               Head(strides), 1, TRUE, TRUE) >>
         \o BodyLoop(NextFIn(f_in, Head(filters)),
                     Tail(filters), Tail(kernel_size), Tail(strides))

\* body(filters, kernel_size, strides)
body(filters, kernel_size, strides) ==
    BodyLoop(StemChannels, filters, kernel_size, strides)

\* Citrinet_encoder(cfg): nn.Sequential(stem, *body); a constructor of a block
\* that raises leaves no encoder
Citrinet_encoder(cfg) ==
    LET blocks == <<stem(cfg.feat_in)>> \o body(cfg.filters, cfg.kernel_sizes, cfg.strides)
    IN  IF \E i \in DOMAIN blocks : blocks[i].state # "built"
        THEN [state |-> "ValueError", cfg |-> cfg, blocks |-> <<>>]
        ELSE [state |-> "built", cfg |-> cfg, blocks |-> blocks]

\* the encoder called: each block on the output of the block before it
RECURSIVE EncoderForward(_, _)
EncoderForward(blocks, sh) ==
    IF blocks = <<>> THEN sh
    ELSE EncoderForward(Tail(blocks), CitrinetBlock_forward(Head(blocks), sh).out)

NoEncoder ==
    [state |-> "none",
     cfg |-> [filters |-> <<>>, kernel_sizes |-> <<>>, strides |-> <<>>, feat_in |-> 0],
     blocks |-> <<>>]
NoEncoderCall == [done |-> FALSE, x |-> ShapeError, out |-> ShapeError]

\* the values of the fields of an EncoderConfig
EncFilters == {2, 3}
EncKernels == {2, 3}
EncStrides == {1, 2}
EncFeatIn == {1, DefaultFeatIn}
EncTimes == {1, 16}
ListsOf(S) == UNION {[1..n -> S] : n \in 0..MaxBlocks}

\* enc = Citrinet_encoder(EncoderConfig(filters, kernel_sizes, strides, feat_in))
NewEncoder ==
    /\ enc.state = "none"
    /\ \E filters \in ListsOf(EncFilters), kernel_sizes \in ListsOf(EncKernels),
          strides \in ListsOf(EncStrides), feat_in \in EncFeatIn :
          enc' = Citrinet_encoder([filters |-> filters, kernel_sizes |-> kernel_sizes,
                                   strides |-> strides, feat_in |-> feat_in])
    /\ UNCHANGED <<enc_call, netVars, normVars, psVars, melVars, ckptVars, featVars>>

\* enc(x), for a batch of feat_in features
CallEncoder ==
    /\ enc.state = "built"
    /\ \E t \in EncTimes :
          LET x == Shape(<<1, enc.cfg.feat_in, t>>)
          IN  enc_call' = [done |-> TRUE, x |-> x, out |-> EncoderForward(enc.blocks, x)]
    /\ UNCHANGED <<enc, netVars, normVars, psVars, melVars, ckptVars, featVars>>

---------------------------------------------------------------------------
(* Numbers of the feature front-end *)

\* Feature values are integers (fixed point). A normalized value is kept
\* exactly: Normalized(dev, n, q) stands for
\*     (dev / n) / (sqrt(q / n^3) + div_guard),
\* that is (x - x_mean) / x_std for x - x_mean = dev / n and a sum of squared
\* deviations of q / n^2 over n counted elements. NaN is what 0 / 0 yields and
\* what every operation on it yields.
Zero == [nan |-> FALSE, dev |-> 0, n |-> 1, q |-> 0]
NaN == [nan |-> TRUE, dev |-> 0, n |-> 0, q |-> 0]
Normalized(dev, n, q) ==
    IF n = 0 THEN NaN
    ELSE IF dev = 0 THEN Zero
    ELSE [nan |-> FALSE, dev |-> dev, n |-> n, q |-> q]

\* sample values of a feature tensor
NormValues == {-2, -1, 0, 2}

RECURSIVE SumSeq(_)
SumSeq(row) == IF row = <<>> THEN 0 ELSE Head(row) + SumSeq(Tail(row))

---------------------------------------------------------------------------
(* FeatureBatchNormalizer *)

\* mask = x.abs() > 0.0, for one (example, feature) row
NonZeroMask(row) == [t \in DOMAIN row |-> row[t] # 0]

\* num_elements = mask.sum(dim=2, keepdim=True)
NumElements(row) == Cardinality({t \in DOMAIN row : NonZeroMask(row)[t]})

\* n^2 * numerator, for numerator = (x - x_mean).pow(2).sum(dim=2) and
\* x_mean = s / n: the sum over every timestep of (n * x - s)^2
SqDevSum(row, n, s) ==
    SumSeq([t \in DOMAIN row |-> (n * row[t] - s) * (n * row[t] - s)])

\* result = (x - x_mean) / x_std, before the mask is applied
NormalizeRow(row) ==
    LET n == NumElements(row)
        s == SumSeq(row)
        q == SqDevSum(row, n, s)
    IN  [t \in DOMAIN row |-> Normalized(n * row[t] - s, n, q)]

\* torch.masked_fill(result, ~mask, 0.0)
MaskedFillZero(result, mask) ==
    [t \in DOMAIN result |-> IF ~mask[t] THEN Zero ELSE result[t]]

\* FeatureBatchNormalizer.forward that returns `result` as it is
FeatureBatchNormalizer_forward_NoMask(x) ==
    [done |-> TRUE, x |-> x,
     num_elements |-> [r \in DOMAIN x |-> NumElements(x[r])],
     sum |-> [r \in DOMAIN x |-> SumSeq(x[r])],
     sqdev |-> [r \in DOMAIN x |-> SqDevSum(x[r], NumElements(x[r]), SumSeq(x[r]))],
     result |-> [r \in DOMAIN x |-> NormalizeRow(x[r])],
     out |-> [r \in DOMAIN x |-> NormalizeRow(x[r])]]

\* FeatureBatchNormalizer.forward, on x given as its (example, feature) rows.
\* The record keeps the intermediate tensors: num_elements, x.sum(dim=2),
\* n^2 * numerator and the unmasked result.
FeatureBatchNormalizer_forward(x) ==
    [done |-> TRUE, x |-> x,
     num_elements |-> [r \in DOMAIN x |-> NumElements(x[r])],
     sum |-> [r \in DOMAIN x |-> SumSeq(x[r])],
     sqdev |-> [r \in DOMAIN x |-> SqDevSum(x[r], NumElements(x[r]), SumSeq(x[r]))],
     result |-> [r \in DOMAIN x |-> NormalizeRow(x[r])],
     out |-> [r \in DOMAIN x |->
                MaskedFillZero(NormalizeRow(x[r]), NonZeroMask(x[r]))]]

NoNormCall ==
    [done |-> FALSE, x |-> <<>>, num_elements |-> <<>>, sum |-> <<>>,
     sqdev |-> <<>>, result |-> <<>>, out |-> <<>>]

NormInputs ==
    UNION {[1..r -> [1..t -> NormValues]] : r \in 1..NormMaxRows, t \in 1..NormMaxTime}

\* x with one zero frame appended to every row (a batch padded to a longer length)
PadZeroFrame(x) == [r \in DOMAIN x |-> Append(x[r], 0)]

\* normalizer(x)
CallNormalizer ==
    /\ ~norm_call.done
    /\ norm_call' = FeatureBatchNormalizer_forward(norm_x)
    /\ UNCHANGED <<norm_x, norm_prev, netVars, psVars, melVars, ckptVars, featVars, encVars>>

\* normalizer(x padded with one more zero frame), after normalizer(x)
PadAndCallNormalizer ==
    /\ norm_call.done
    /\ Len(norm_x[1]) <= NormMaxTime
    /\ norm_x' = PadZeroFrame(norm_x)
    /\ norm_prev' = norm_call
    /\ norm_call' = FeatureBatchNormalizer_forward(PadZeroFrame(norm_x))
    /\ UNCHANGED <<netVars, psVars, melVars, ckptVars, featVars, encVars>>

---------------------------------------------------------------------------
(* PowerSpectrum.__init__ *)

\* math.ceil(math.log2(n)) for n >= 1: the least e with 2^e >= n
RECURSIVE CeilLog2From(_, _, _)
CeilLog2From(n, e, pow) == IF pow >= n THEN e ELSE CeilLog2From(n, e + 1, 2 * pow)
CeilLog2(n) == CeilLog2From(n, 0, 1)

Pow2(e) == 2 ^ e

\* the absent (None) or zero n_fft: `n_fft or ...` takes the fallback for both
Falsy == 0

NoPowerSpectrum ==
    [state |-> "none", n_window_size |-> 0, n_window_stride |-> 0, n_fft_arg |-> 0,
     win_length |-> 0, hop_length |-> 0, n_fft |-> 0]

\* PowerSpectrum.__init__ that refuses only when both arguments are invalid
PowerSpectrum_init_And(n_window_size, n_window_stride, n_fft) ==
    IF n_window_size <= 0 /\ n_window_stride <= 0
    THEN [NoPowerSpectrum EXCEPT !.state = "ValueError",
             !.n_window_size = n_window_size, !.n_window_stride = n_window_stride,
             !.n_fft_arg = n_fft]
    ELSE [state |-> "built", n_window_size |-> n_window_size,
          n_window_stride |-> n_window_stride, n_fft_arg |-> n_fft,
          win_length |-> n_window_size, hop_length |-> n_window_stride,
          n_fft |-> IF n_fft # Falsy THEN n_fft
                    ELSE Pow2(CeilLog2(n_window_size))]

\* PowerSpectrum.__init__: the record keeps the arguments beside the fields
\* the constructor sets; a refused construction sets none of them.
PowerSpectrum_init(n_window_size, n_window_stride, n_fft) ==
    IF n_window_size <= 0 \/ n_window_stride <= 0
    THEN [NoPowerSpectrum EXCEPT !.state = "ValueError",
             !.n_window_size = n_window_size, !.n_window_stride = n_window_stride,
             !.n_fft_arg = n_fft]
    ELSE [state |-> "built", n_window_size |-> n_window_size,
          n_window_stride |-> n_window_stride, n_fft_arg |-> n_fft,
          win_length |-> n_window_size, hop_length |-> n_window_stride,
          n_fft |-> IF n_fft # Falsy THEN n_fft
                    ELSE Pow2(CeilLog2(n_window_size))]

\* ps = PowerSpectrum(n_window_size, n_window_stride, n_fft)
NewPowerSpectrum ==
    /\ ps.state = "none"
    /\ \E w \in -MaxWindow..MaxWindow, h \in -MaxWindow..MaxWindow, f \in 0..MaxFFT :
          ps' = PowerSpectrum_init(w, h, f)
    /\ UNCHANGED <<netVars, normVars, melVars, ckptVars, featVars, encVars>>

\* the module is dropped (or the failed construction abandoned)
DropPowerSpectrum ==
    /\ ps.state # "none"
    /\ ps' = NoPowerSpectrum
    /\ UNCHANGED <<netVars, normVars, melVars, ckptVars, featVars, encVars>>

---------------------------------------------------------------------------
(* MelScale *)

\* Power and filterbank values are non-negative integers: a power value v
\* stands for v * 2^-24, so that x + 2 ** -24 is v + 1 units.

\* floor(log2(n)) for n >= 1
RECURSIVE FloorLog2(_)
FloorLog2(n) == IF n <= 1 THEN 0 ELSE 1 + FloorLog2(n \div 2)

\* torch.log(x + 2 ** -24), in units of ln 2 and rounded down to a whole unit:
\* log2((v + 1) * 2^-24) = log2(v + 1) - 24
LogGuarded(v) == FloorLog2(v + 1) - LogGuardExponent

\* torch.matmul(fb, x) for fb of nfilt x n_freqs and x of n_freqs x frames
MatMul(fb, x) ==
    [m \in DOMAIN fb |->
        [f \in DOMAIN x[1] |->
            SumSeq([k \in DOMAIN x |-> fb[m][k] * x[k][f]])]]

\* the filterbanks create_fb_matrix may return: non-negative weights, a
\* frequency bin being inside a filter's triangle (1) or outside of it (0)
FbWeights == {0, 1}
FilterBanks(nfilt, n_freqs) == [1..nfilt -> [1..n_freqs -> FbWeights]]

NoMelScale == [state |-> "none", n_freqs |-> 0, nfilt |-> 0, log_scale |-> FALSE, fb |-> <<>>]

\* MelScale.__init__, fb being the matrix create_fb_matrix(1 + n_fft // 2, ...)
\* returned, transposed
MelScale_init(n_fft, nfilt, log_scale, fb) ==
    [state |-> "built", n_freqs |-> 1 + n_fft \div 2, nfilt |-> nfilt,
     log_scale |-> log_scale, fb |-> fb]

NoMelCall == [done |-> FALSE, ok |-> FALSE, proj |-> <<>>, out |-> <<>>]

\* MelScale.forward that leaves out `x[~mask] = 0.0`
MelScale_forward_NoMask(m, x) ==
    IF Len(x) # m.n_freqs THEN [NoMelCall EXCEPT !.done = TRUE]
    ELSE LET proj == MatMul(m.fb, x)
         IN  [done |-> TRUE, ok |-> TRUE, proj |-> proj,
              out |-> IF ~m.log_scale THEN proj
                      ELSE [r \in DOMAIN proj |->
                              [f \in DOMAIN proj[r] |-> LogGuarded(proj[r][f])]]]

\* MelScale.forward, on one example x of n_freqs rows; the record keeps the
\* projection beside the output. matmul refuses x when its rows are not n_freqs.
MelScale_forward(m, x) ==
    IF Len(x) # m.n_freqs THEN [NoMelCall EXCEPT !.done = TRUE]
    ELSE LET proj == MatMul(m.fb, x)
         IN  [done |-> TRUE, ok |-> TRUE, proj |-> proj,
              out |-> IF ~m.log_scale THEN proj
                      ELSE [r \in DOMAIN proj |->
                              [f \in DOMAIN proj[r] |->
                                  IF ~(proj[r][f] # 0) THEN 0
                                  ELSE LogGuarded(proj[r][f])]]]

\* mel = MelScale(sample_rate, n_fft, nfilt, log_scale)
NewMelScale ==
    /\ mel.state = "none"
    /\ \E n_fft \in {2, 3, 4}, nfilt \in 1..MaxFilters, log_scale \in BOOLEAN :
          \E fb \in FilterBanks(nfilt, 1 + n_fft \div 2) :
              mel' = MelScale_init(n_fft, nfilt, log_scale, fb)
    /\ UNCHANGED <<mel_x, mel_call, netVars, normVars, psVars, ckptVars, featVars, encVars>>

\* mel(x)
CallMelScale ==
    /\ mel.state = "built"
    /\ ~mel_call.done
    /\ mel_call' = MelScale_forward(mel, mel_x)
    /\ UNCHANGED <<mel, mel_x, netVars, normVars, psVars, ckptVars, featVars, encVars>>

\* power spectrograms of 2 or 3 frequency bins
MelInputs ==
    UNION {[1..k -> [1..f -> 0..MaxPower]] : k \in {2, 3}, f \in 1..MaxFrames}

---------------------------------------------------------------------------
(* BaseCheckpoint and download_checkpoint *)

\* The members of a checkpoint enum (a subclass of BaseCheckpoint): member
\* name -> value, the value being a URL given as its "/"-separated segments.
\* Two members share their last segment, one URL ends with a "/".
CheckpointMembers ==
    [QuartzNet5x5 |-> <<"https:", "", "host", "v1", "quartznet.nemo">>,
     QuartzNet15x5 |-> <<"https:", "", "host", "v2", "quartznet.nemo">>,
     Listing |-> <<"https:", "", "host", "v1", "">>]

\* the strings handed to from_string: member names and others
NameStrings ==
    {"QuartzNet5x5", "QuartzNet15x5", "Listing",
     "quartznet5x5", "", "https://host/v1/quartznet.nemo"}

NotParsed == [raised |-> "", name |-> "", member |-> ""]

\* BaseCheckpoint.from_string without the try / except around cls[name]
from_string_NoExcept(name) ==
    IF name \in DOMAIN CheckpointMembers
    THEN [raised |-> "none", name |-> name, member |-> name]
    ELSE [raised |-> "KeyError", name |-> name, member |-> ""]

\* BaseCheckpoint.from_string(name): cls[name], a KeyError turned into a
\* ValueError. A member is identified by its name.
from_string(name) ==
    IF name \in DOMAIN CheckpointMembers
    THEN [raised |-> "none", name |-> name, member |-> name]
    ELSE [raised |-> "ValueError", name |-> name, member |-> ""]

\* The folders a caller may pass; None stands for the default cache folder.
None == "None"
DefaultCacheFolder == "~/.thunder"
Folders == {None, "ckpt"}

\* url.split("/")[-1]
LastSegment(url) == url[Len(url)]

\* Path(checkpoint_folder) / filename; joining "" gives the folder itself
JoinPath(folder, filename) == <<folder, filename>>

\* checkpoint_path.exists(): a file, or (for an empty filename) the folder
PathExists(fs, ds, path) ==
    IF path[2] = "" THEN path[1] \in ds ELSE path \in DOMAIN fs

\* download_checkpoint(name, checkpoint_folder) that downloads unconditionally
download_checkpoint_NoCache(fs, ds, member, folder_arg, net_ok) ==
    LET ds1 == IF folder_arg = None THEN ds \cup {DefaultCacheFolder} ELSE ds
        checkpoint_folder == IF folder_arg = None THEN DefaultCacheFolder ELSE folder_arg
        url == CheckpointMembers[member]
        checkpoint_path == JoinPath(checkpoint_folder, LastSegment(url))
        can_write == net_ok /\ checkpoint_folder \in ds1 /\ checkpoint_path[2] # ""
    IN  [name |-> member, folder |-> folder_arg, path |-> checkpoint_path,
         raised |-> ~can_write, downloaded |-> can_write,
         dirs |-> ds1,
         files |-> IF can_write
                   THEN [q \in DOMAIN fs \cup {checkpoint_path} |->
                            IF q = checkpoint_path THEN url ELSE fs[q]]
                   ELSE fs]

\* download_checkpoint(name, checkpoint_folder) on the disk (fs, ds). net_ok
\* is whether wget.download would succeed, which also needs the folder to
\* exist. The record holds the arguments, the returned path, whether the call
\* raised, whether it downloaded, and the disk it leaves.
download_checkpoint(fs, ds, member, folder_arg, net_ok) ==
    LET ds1 == IF folder_arg = None THEN ds \cup {DefaultCacheFolder} ELSE ds
        checkpoint_folder == IF folder_arg = None THEN DefaultCacheFolder ELSE folder_arg
        url == CheckpointMembers[member]
        checkpoint_path == JoinPath(checkpoint_folder, LastSegment(url))
        exists == PathExists(fs, ds1, checkpoint_path)
        can_write == net_ok /\ checkpoint_folder \in ds1 /\ checkpoint_path[2] # ""
    IN  [name |-> member, folder |-> folder_arg, path |-> checkpoint_path,
         raised |-> ~exists /\ ~can_write,
         downloaded |-> ~exists /\ can_write,
         dirs |-> ds1,
         files |-> IF ~exists /\ can_write
                   THEN [q \in DOMAIN fs \cup {checkpoint_path} |->
                            IF q = checkpoint_path THEN url ELSE fs[q]]
                   ELSE fs]

\* BaseCheckpoint.from_string(name)
CallFromString ==
    /\ \E name \in NameStrings : parsed' = from_string(name)
    /\ UNCHANGED <<dirs, files, calls, netVars, normVars, psVars, melVars, featVars, encVars>>

\* download_checkpoint(member, folder)
CallDownloadCheckpoint ==
    /\ Len(calls) < MaxCalls
    /\ \E member \in DOMAIN CheckpointMembers, folder \in Folders, net_ok \in BOOLEAN :
          LET c == download_checkpoint(files, dirs, member, folder, net_ok)
          IN  /\ calls' = Append(calls, c)
              /\ files' = c.files
              /\ dirs' = c.dirs
    /\ UNCHANGED <<parsed, netVars, normVars, psVars, melVars, featVars, encVars>>

---------------------------------------------------------------------------
(* DitherAudio, PreEmphasisFilter, PowerSpectrum.forward *)

\* Audio samples, dither amounts and noise values are integers (fixed point).

\* DitherAudio.forward that adds the noise unscaled and in every mode
DitherAudio_forward_Unscaled(training, dither, x, noise) ==
    [t \in DOMAIN x |-> x[t] + (IF x[t] > 0 THEN 1 ELSE 0) * noise[t]]

\* DitherAudio.forward; noise is what torch.randn_like(x) draws
DitherAudio_forward(training, dither, x, noise) ==
    IF training
    THEN [t \in DOMAIN x |-> x[t] + (IF x[t] > 0 THEN 1 ELSE 0) * (dither * noise[t])]
    ELSE x

\* PreEmphasisFilter.forward, its output in units of 1 / PreemphDen:
\* y[0] = x[0], y[n] = x[n] - preemph * x[n-1]
PreEmphasisFilter_forward(x) ==
    [t \in DOMAIN x |->
        IF t = 1 THEN PreemphDen * x[1]
        ELSE PreemphDen * x[t] - PreemphNum * x[t - 1]]

\* 4 * torch.hann_window(n, periodic=False), for n in 1..4
HannTimes4(n) ==
    CASE n = 1 -> <<4>>
      [] n = 2 -> <<0, 0>>
      [] n = 3 -> <<0, 4, 0>>
      [] n = 4 -> <<0, 3, 3, 0>>

\* the window, zero-padded on both sides to n_fft as torch.stft does
PaddedWindow(win_length, n_fft) ==
    LET left == (n_fft - win_length) \div 2
    IN  [j \in 1..n_fft |->
            IF j > left /\ j <= left + win_length
            THEN HannTimes4(win_length)[j - left] ELSE 0]

\* center=True: the signal reflect-padded by n_fft // 2 on both sides
ReflectPad(x, pad) ==
    LET n == Len(x)
    IN  [i \in 1..(n + 2 * pad) |->
            LET o == i - pad
            IN  x[IF o < 1 THEN 2 - o ELSE IF o > n THEN 2 * n - o ELSE o]]

\* cos and sin of a multiple a of a quarter turn
Cos4(a) == <<1, 0, -1, 0>>[(a % 4) + 1]
Sin4(a) == <<0, 1, 0, -1>>[(a % 4) + 1]

\* the sizes for which every twiddle factor is 1, -1, i or -i
ExactFFT == {1, 2, 4}

\* whether torch.stft accepts the signal
StftAccepts(p, x) ==
    /\ p.n_fft \in ExactFFT
    /\ p.win_length >= 1 /\ p.win_length <= p.n_fft
    /\ p.hop_length >= 1
    /\ p.n_fft \div 2 < Len(x)

\* PowerSpectrum.forward on one signal: the squared magnitude of the STFT,
\* 1 + n_fft // 2 bins by 1 + len // hop frames, in units of 1/16 for the
\* window scaled by 4
PowerSpectrum_forward(p, x) ==
    IF ~StftAccepts(p, x) THEN [ok |-> FALSE, v |-> <<>>]
    ELSE
      LET padded == ReflectPad(x, p.n_fft \div 2)
          w == PaddedWindow(p.win_length, p.n_fft)
          n_frames == 1 + (Len(padded) - p.n_fft) \div p.hop_length
          quarter == 4 \div p.n_fft
          Re(k, f) == SumSeq([j \in 1..p.n_fft |->
                         w[j] * padded[f * p.hop_length + j] * Cos4((j - 1) * k * quarter)])
          Im(k, f) == SumSeq([j \in 1..p.n_fft |->
                         w[j] * padded[f * p.hop_length + j] * Sin4((j - 1) * k * quarter)])
      IN  [ok |-> TRUE,
           v |-> [k \in 1..(1 + p.n_fft \div 2) |->
                    [f \in 1..n_frames |->
                        Re(k - 1, f - 1) * Re(k - 1, f - 1)
                        + Im(k - 1, f - 1) * Im(k - 1, f - 1)]]]

---------------------------------------------------------------------------
(* FilterbankFeatures *)

NoFeatures ==
    [state |-> "none", training |-> FALSE, dither |-> 0,
     ps |-> NoPowerSpectrum, mel |-> NoMelScale]

\* FilterbankFeatures(cfg): the five stages, built from the fields of cfg; fb
\* is the filterbank create_fb_matrix returns to MelScale.__init__. A module
\* is in training mode when constructed.
FilterbankFeatures(n_window_size, n_window_stride, n_fft, nfilt, dither, fb) ==
    LET p == PowerSpectrum_init(n_window_size, n_window_stride, n_fft)
    IN  IF p.state = "ValueError"
        THEN [NoFeatures EXCEPT !.state = "ValueError"]
        ELSE [state |-> "built", training |-> TRUE, dither |-> dither,
              ps |-> p, mel |-> MelScale_init(n_fft, nfilt, TRUE, fb)]

\* One call of the pipeline on the signal x, noise being the values the
\* dithering stage draws. The record keeps the mode of the call, the output
\* of the dithering stage and the output of the last stage.
RunFeatures(m, x, noise) ==
    LET dithered == DitherAudio_forward(m.training, m.dither, x, noise)
        emphasized == PreEmphasisFilter_forward(dithered)
        power == PowerSpectrum_forward(m.ps, emphasized)
        melspec == IF power.ok THEN MelScale_forward(m.mel, power.v)
                   ELSE [NoMelCall EXCEPT !.done = TRUE]
    IN  [training |-> m.training, dithered |-> dithered,
         ok |-> power.ok /\ melspec.ok,
         out |-> IF power.ok /\ melspec.ok
                 THEN FeatureBatchNormalizer_forward(melspec.out).out
                 ELSE <<>>]

\* sample values of an audio signal, and the values a noise draw may take
FeatSamples == {-1, 0, 1}
NoiseValues == {-1, 1}
FeatInputs == UNION {[1..n -> FeatSamples] : n \in 1..FeatMaxTime}

\* (n_window_size, n_window_stride, n_fft) of the configurations built; the
\* last two leave n_fft to the fallback of PowerSpectrum
StftConfigs == {<<1, 1, 2>>, <<1, 2, 2>>, <<3, 1, 4>>, <<1, 1, Falsy>>, <<2, 1, Falsy>>}

\* features = FilterbankFeatures(cfg), with one mel filter
NewFilterbankFeatures ==
    /\ feat.state = "none"
    /\ \E c \in StftConfigs, dither \in 0..MaxDither :
          \E fb \in FilterBanks(1, 1 + c[3] \div 2) :
              feat' = FilterbankFeatures(c[1], c[2], c[3], 1, dither, fb)
    /\ UNCHANGED <<feat_x, feat_runs, netVars, normVars, psVars, melVars, ckptVars, encVars>>

\* features.eval()
EvalFeatures ==
    /\ feat.state = "built" /\ feat.training
    /\ feat' = [feat EXCEPT !.training = FALSE]
    /\ UNCHANGED <<feat_x, feat_runs, netVars, normVars, psVars, melVars, ckptVars, encVars>>

\* features.train()
TrainFeatures ==
    /\ feat.state = "built" /\ ~feat.training
    /\ feat' = [feat EXCEPT !.training = TRUE]
    /\ UNCHANGED <<feat_x, feat_runs, netVars, normVars, psVars, melVars, ckptVars, encVars>>

\* features(x), for the first and for the second time
CallFeatures ==
    /\ feat.state = "built"
    /\ Len(feat_runs) < 2
    /\ \E noise \in [DOMAIN feat_x -> NoiseValues] :
          feat_runs' = Append(feat_runs, RunFeatures(feat, feat_x, noise))
    /\ UNCHANGED <<feat, feat_x, netVars, normVars, psVars, melVars, ckptVars, encVars>>

---------------------------------------------------------------------------
(* Specifications *)

IdleNet ==
    /\ se = NoSE
    /\ se_call = NoCall
    /\ blk = NoBlock
    /\ blk_call = NoBlockCall

IdleNorm ==
    /\ norm_x = <<>>
    /\ norm_call = NoNormCall
    /\ norm_prev = NoNormCall

IdlePS == ps = NoPowerSpectrum

IdleMel ==
    /\ mel = NoMelScale
    /\ mel_x = <<>>
    /\ mel_call = NoMelCall

IdleCkpt ==
    /\ dirs = {}
    /\ files = <<>>
    /\ calls = <<>>
    /\ parsed = NotParsed

IdleFeat ==
    /\ feat = NoFeatures
    /\ feat_x = <<>>
    /\ feat_runs = <<>>

IdleEnc ==
    /\ enc = NoEncoder
    /\ enc_call = NoEncoderCall

InitAll == IdleNet /\ IdleNorm /\ IdlePS /\ IdleMel /\ IdleCkpt /\ IdleFeat /\ IdleEnc

NextSE == NewSqueezeExcite \/ CallSqueezeExcite
SpecSE == InitAll /\ [][NextSE]_vars

NextBlock == NewCitrinetBlock \/ CallCitrinetBlock
SpecBlock == InitAll /\ [][NextBlock]_vars

InitNorm ==
    /\ IdleNet /\ IdlePS /\ IdleMel /\ IdleCkpt /\ IdleFeat /\ IdleEnc
    /\ norm_x \in NormInputs
    /\ norm_call = NoNormCall
    /\ norm_prev = NoNormCall

NextNorm == CallNormalizer \/ PadAndCallNormalizer
SpecNorm == InitNorm /\ [][NextNorm]_vars

NextPS == NewPowerSpectrum \/ DropPowerSpectrum
SpecPS == InitAll /\ [][NextPS]_vars

InitMel ==
    /\ IdleNet /\ IdleNorm /\ IdlePS /\ IdleCkpt /\ IdleFeat /\ IdleEnc
    /\ mel = NoMelScale
    /\ mel_x \in MelInputs
    /\ mel_call = NoMelCall

NextMel == NewMelScale \/ CallMelScale
SpecMel == InitMel /\ [][NextMel]_vars

\* a disk on which some of the folders a caller names exist, and no file yet
InitCkpt ==
    /\ IdleNet /\ IdleNorm /\ IdlePS /\ IdleMel /\ IdleFeat /\ IdleEnc
    /\ dirs \in SUBSET (Folders \ {None})
    /\ files = <<>>
    /\ calls = <<>>
    /\ parsed = NotParsed

NextCkpt == CallFromString \/ CallDownloadCheckpoint
SpecCkpt == InitCkpt /\ [][NextCkpt]_vars

InitFeat ==
    /\ IdleNet /\ IdleNorm /\ IdlePS /\ IdleMel /\ IdleCkpt /\ IdleEnc
    /\ feat = NoFeatures
    /\ feat_x \in FeatInputs
    /\ feat_runs = <<>>

NextFeat == NewFilterbankFeatures \/ EvalFeatures \/ TrainFeatures \/ CallFeatures
SpecFeat == InitFeat /\ [][NextFeat]_vars

NextEnc == NewEncoder \/ CallEncoder
SpecEnc == InitAll /\ [][NextEnc]_vars

---------------------------------------------------------------------------
(* Claims about the Citrinet blocks *)

C2_SqueezeExciteKeepsShape ==
    (se.state = "built" /\ se_call.done /\ se_call.x.dims[2] = se.channels)
    => se_call.out = se_call.x

\* a gate with a bottleneck narrower than its channels, on more than one frame
C2_Witness ==
    /\ se.state = "built" /\ se_call.done
    /\ se.channels = 3 /\ se.hidden = 1
    /\ se_call.x.dims = <<2, 3, 4>>
    /\ se_call.out.ok

MainConvs(layers) == SelectSeq(layers, LAMBDA l : l.kind = "conv" /\ l.role = "main")
LayersOfKind(layers, kind) == SelectSeq(layers, LAMBDA l : l.kind = kind)

BlockIn(b) == b.mconv[1].cin
BlockOut(b) ==
    LET bns == LayersOfKind(b.mconv, "bn")
    IN  bns[Len(bns)].cout

\* C11: for filters, kernel_sizes and strides of the same length n the encoder
\* holds exactly n+2 blocks in order: the stem (feat_in -> 256 channels, no
\* residual), one body block per index i with filters[i], kernel_sizes[i] and
\* strides[i], and a final block (-> 640 channels, no residual); every block
\* takes as many channels as the block before it gives.
C11_EncoderBlocks ==
    (enc.state = "built"
        /\ Len(enc.cfg.filters) = Len(enc.cfg.kernel_sizes)
        /\ Len(enc.cfg.filters) = Len(enc.cfg.strides)) =>
        LET n == Len(enc.cfg.filters)
            b == enc.blocks
        IN  /\ Len(b) = n + 2
            /\ BlockIn(b[1]) = enc.cfg.feat_in
            /\ BlockOut(b[1]) = 256
            /\ ~b[1].params.residual /\ b[1].res = <<>>
            /\ \A i \in 1..n :
                  LET stages == MainConvs(b[i + 1].mconv)
                  IN  /\ BlockOut(b[i + 1]) = enc.cfg.filters[i]
                      /\ \A j \in DOMAIN stages :
                            stages[j].kernel = enc.cfg.kernel_sizes[i]
                      /\ stages[Len(stages)].stride = enc.cfg.strides[i]
                      /\ b[i + 1].params.stride = enc.cfg.strides[i]
            /\ BlockOut(b[n + 2]) = 640
            /\ ~b[n + 2].params.residual /\ b[n + 2].res = <<>>
            /\ \A i \in 2..(n + 2) :
                  /\ BlockIn(b[i]) = BlockOut(b[i - 1])
                  /\ b[i].params.in_channels = b[i - 1].params.out_channels

\* an encoder with two body blocks of different widths, kernels and strides,
\* called on an input it accepts
C11_Witness ==
    /\ enc.state = "built"
    /\ enc.cfg.filters = <<2, 3>>
    /\ enc.cfg.kernel_sizes = <<3, 2>>
    /\ enc.cfg.strides = <<2, 1>>
    /\ Len(enc.blocks) = 4
    /\ enc_call.done /\ enc_call.x.ok

---------------------------------------------------------------------------
(* Claims about FeatureBatchNormalizer *)

\* C3: FeatureBatchNormalizer.forward maps every row that is zero at all
\* timesteps to a row that is zero at all timesteps, with no NaN in it, and
\* every position that is zero in the input is zero in the output.
C3_ZeroStaysZero ==
    norm_call.done =>
        \A r \in DOMAIN norm_call.x :
            /\ \A t \in DOMAIN norm_call.x[r] :
                  norm_call.x[r][t] = 0 => norm_call.out[r][t] = Zero
            /\ (\A t \in DOMAIN norm_call.x[r] : norm_call.x[r][t] = 0)
                  => \A t \in DOMAIN norm_call.x[r] :
                        ~norm_call.out[r][t].nan /\ norm_call.out[r][t] = Zero

\* an all-zero row of two frames, whose divisor is 0 and whose unmasked result
\* is NaN, beside a row that is not all zero
C3_Witness ==
    /\ norm_call.done
    /\ \E r \in DOMAIN norm_call.x :
          /\ Len(norm_call.x[r]) >= 2
          /\ norm_call.num_elements[r] = 0
          /\ \A t \in DOMAIN norm_call.x[r] : norm_call.result[r][t].nan
          /\ \A t \in DOMAIN norm_call.x[r] : norm_call.out[r][t] = Zero
    /\ \E r \in DOMAIN norm_call.x : norm_call.num_elements[r] > 0

\* C9: the statistics of a row come only from its non-zero timesteps: zero
\* timesteps add nothing to the element count, the mean or the sum of squared
\* deviations, so appending zero timesteps to a row leaves the normalized
\* values at its non-zero positions unchanged.
C9_ZeroFramesDoNotCount ==
    (norm_prev.done /\ norm_call.done) =>
        \A r \in DOMAIN norm_prev.x :
            \A t \in DOMAIN norm_prev.x[r] :
                norm_prev.x[r][t] # 0 => norm_call.out[r][t] = norm_prev.out[r][t]

---------------------------------------------------------------------------
(* Claims about the feature front-end *)

\* C4: with log_scale enabled MelScale.forward gives exactly 0, not the
\* logarithm of the guard 2^-24, wherever the mel projection of the input is
\* zero; an all-zero spectrogram gives an all-zero output.
C4_LogOfZeroIsZero ==
    (mel_call.done /\ mel_call.ok /\ mel.log_scale) =>
        /\ \A r \in DOMAIN mel_call.proj : \A f \in DOMAIN mel_call.proj[r] :
              mel_call.proj[r][f] = 0 =>
                  mel_call.out[r][f] = 0 /\ mel_call.out[r][f] # LogGuarded(0)
        /\ (\A k \in DOMAIN mel_x : \A f \in DOMAIN mel_x[k] : mel_x[k][f] = 0)
              => \A r \in DOMAIN mel_call.out : \A f \in DOMAIN mel_call.out[r] :
                    mel_call.out[r][f] = 0

\* a log-scaled projection that is zero although the spectrogram is not
C4_Witness ==
    /\ mel_call.done /\ mel_call.ok /\ mel.log_scale
    /\ \E k \in DOMAIN mel_x : \E f \in DOMAIN mel_x[k] : mel_x[k][f] # 0
    /\ \E r \in DOMAIN mel_call.proj : \E f \in DOMAIN mel_call.proj[r] :
          mel_call.proj[r][f] = 0 /\ mel_call.out[r][f] = 0

\* C7: PowerSpectrum(n_window_size, n_window_stride, n_fft) raises ValueError
\* and yields no module when n_window_size <= 0 or n_window_stride <= 0, and
\* raises no ValueError when both are strictly positive.
C7_WindowValidation ==
    ps.state # "none" =>
        /\ (ps.n_window_size <= 0 \/ ps.n_window_stride <= 0) =>
              /\ ps.state = "ValueError"
              /\ ps.win_length = 0 /\ ps.hop_length = 0 /\ ps.n_fft = 0
        /\ (ps.n_window_size > 0 /\ ps.n_window_stride > 0) =>
              /\ ps.state = "built"
              /\ ps.win_length = ps.n_window_size
              /\ ps.hop_length = ps.n_window_stride

\* a construction refused for its stride alone
C7_Witness ==
    /\ ps.state = "ValueError"
    /\ ps.n_window_size > 0
    /\ ps.n_window_stride <= 0

---------------------------------------------------------------------------
(* Claims about the checkpoint helpers *)

\* C6: download_checkpoint is idempotent: once a call with an identifier and a
\* folder has completed, every later call with the same identifier and folder
\* downloads nothing, leaves the disk as it was, and returns the same path,
\* the folder joined with the last segment of the identifier's URL.
C6_DownloadIdempotent ==
    \A i \in 1..Len(calls) : \A j \in 1..Len(calls) :
        (i < j /\ ~calls[i].raised
            /\ calls[j].name = calls[i].name /\ calls[j].folder = calls[i].folder)
        => /\ ~calls[j].raised
           /\ ~calls[j].downloaded
           /\ calls[j].files = calls[j - 1].files
           /\ calls[j].path = calls[i].path
           /\ calls[j].path =
                 JoinPath(IF calls[j].folder = None THEN DefaultCacheFolder
                          ELSE calls[j].folder,
                          LastSegment(CheckpointMembers[calls[j].name]))

\* a checkpoint downloaded by one call and asked for again by a later one
C6_Witness ==
    \E i \in 1..Len(calls) : \E j \in 1..Len(calls) :
        /\ i < j
        /\ calls[i].downloaded
        /\ calls[j].name = calls[i].name /\ calls[j].folder = calls[i].folder
        /\ ~calls[j].downloaded /\ ~calls[j].raised

\* C8: BaseCheckpoint.from_string(name) returns the member named `name` when
\* there is one, and raises ValueError, not KeyError, for every other name.
C8_FromString ==
    parsed # NotParsed =>
        IF parsed.name \in DOMAIN CheckpointMembers
        THEN parsed.raised = "none" /\ parsed.member = parsed.name
        ELSE parsed.raised = "ValueError" /\ parsed.raised # "KeyError"

\* a name that differs from a member's only by case
C8_Witness ==
    /\ parsed.name = "quartznet5x5"
    /\ parsed.raised = "ValueError"

---------------------------------------------------------------------------
(* Claims about the FilterbankFeatures pipeline *)

\* C5: with a dither amount of zero and the module in evaluation mode the
\* pipeline is deterministic: two runs on the same input give the same
\* output, the dithering stage returning its input unchanged and no later
\* stage drawing random values.
C5_DeterministicInEval ==
    feat.dither = 0 =>
        \A i \in 1..Len(feat_runs) : \A j \in 1..Len(feat_runs) :
            (~feat_runs[i].training /\ ~feat_runs[j].training) =>
                /\ feat_runs[i].dithered = feat_x
                /\ feat_runs[i].ok = feat_runs[j].ok
                /\ feat_runs[i].out = feat_runs[j].out

\* two runs in evaluation mode, without dither, of a signal with positive
\* samples, that give features other than zero
C5_Witness ==
    /\ feat.dither = 0
    /\ Len(feat_runs) = 2
    /\ ~feat_runs[1].training /\ ~feat_runs[2].training
    /\ \E t \in DOMAIN feat_x : feat_x[t] > 0
    /\ feat_runs[1].ok
    /\ \E r \in DOMAIN feat_runs[1].out : \E f \in DOMAIN feat_runs[1].out[r] :
          feat_runs[1].out[r][f] # Zero

\* C12: in every pipeline built from a configuration with a positive window
\* size and stride, the number of frequency bins the PowerSpectrum stage gives
\* (1 + n_fft // 2 for the n_fft it uses, the fallback included) is the number
\* of frequency bins the filterbank of the MelScale stage was built for
\* (1 + cfg.n_fft // 2).
C12_BinsConsistent ==
    (feat.state = "built" /\ feat.ps.n_window_size > 0 /\ feat.ps.n_window_stride > 0)
    => /\ 1 + feat.ps.n_fft \div 2 = feat.mel.n_freqs
       /\ \A i \in DOMAIN feat.mel.fb : Len(feat.mel.fb[i]) = 1 + feat.ps.n_fft \div 2

====
